---- MODULE Spec2Model ----
(***************************************************************************)
(* Model of src/core/server/opensearch/client/configure_client.ts:         *)
(* configureClient derives the construction options, constructs the        *)
(* client, attaches one 'response' listener and returns the client; the    *)
(* listener writes an error line and/or a debug "query" line to the        *)
(* injected logger.                                                        *)
(*                                                                         *)
(* JavaScript values are records tagged with a kind.  Texts are TLA+       *)
(* strings; the keys and values of a querystring mapping are sequences of  *)
(* one-character strings, because querystring.stringify escapes them       *)
(* character by character.                                                 *)
(***************************************************************************)
EXTENDS Integers, Sequences, FiniteSets, TLC

\* Number of 'response' events delivered to one client.
MaxEvents == 2
\* Number of key/value pairs of a querystring mapping.
MaxPairs == 2

VARIABLES call, client, logger, delivered, lastError, lastEvent, emitted, threw

vars == <<call, client, logger, delivered, lastError, lastEvent, emitted, threw>>

----------------------------------------------------------------------------
(* JavaScript values *)

Undefined == [kind |-> "undefined"]
Str(s) == [kind |-> "string", str |-> s]
Bool(b) == [kind |-> "boolean", b |-> b]
Fn == [kind |-> "function"]
Buf == [kind |-> "buffer"]
Obj(props) == [kind |-> "object", props |-> props]
P(k, v) == [key |-> k, val |-> v]

\* v is null or undefined: what ?. and ?? test.
Nullish(v) == v.kind = "undefined"

\* a ?? b
Coalesce(a, b) == IF Nullish(a) THEN b ELSE a

\* The truthiness of a value in a condition.
Truthy(v) ==
  CASE v.kind = "undefined" -> FALSE
    [] v.kind = "string" -> v.str # ""
    [] v.kind = "boolean" -> v.b
    [] OTHER -> TRUE

\* 'k' in body
In(k, body) == \E i \in 1..Len(body.props) : body.props[i].key = k

\* body.k (undefined when the object has no such property)
Get(body, k) ==
  IF In(k, body)
    THEN body.props[CHOOSE i \in 1..Len(body.props) : body.props[i].key = k].val
    ELSE Undefined

----------------------------------------------------------------------------
(* querystring.stringify and JSON.stringify, as the wrapper uses them *)

\* querystring.escape of one character: unreserved characters are kept, the
\* others percent-encoded.
qsEscapeChar(c) ==
  CASE c = " " -> "%20"
    [] c = "&" -> "%26"
    [] c = "=" -> "%3D"
    [] c = "?" -> "%3F"
    [] OTHER -> c

RECURSIVE qsEscape(_)
qsEscape(chars) ==
  IF chars = <<>> THEN "" ELSE qsEscapeChar(Head(chars)) \o qsEscape(Tail(chars))

\* stringify(qs): escape(key) = escape(value) for each own property in
\* insertion order, joined by '&'.
RECURSIVE stringifyFrom(_, _)
stringifyFrom(props, i) ==
  IF i > Len(props) THEN ""
  ELSE qsEscape(props[i].key) \o "=" \o qsEscape(props[i].val)
       \o (IF i < Len(props) THEN "&" ELSE "")
       \o stringifyFrom(props, i + 1)

stringify(qs) == stringifyFrom(qs.props, 1)

\* JSON.stringify(value): properties holding a function or undefined are
\* left out, nested objects are serialised in place, no indentation.
RECURSIVE JSONstringify(_)
RECURSIVE jsonMembers(_, _)
jsonMembers(props, first) ==
  IF props = <<>> THEN ""
  ELSE LET p == Head(props)
       IN IF p.val.kind \in {"function", "undefined"}
            THEN jsonMembers(Tail(props), first)
            ELSE (IF first THEN "" ELSE ",")
                 \o "\"" \o p.key \o "\":" \o JSONstringify(p.val)
                 \o jsonMembers(Tail(props), FALSE)

JSONstringify(v) ==
  CASE v.kind = "string" -> "\"" \o v.str \o "\""
    [] v.kind = "boolean" -> (IF v.b THEN "true" ELSE "false")
    [] OTHER -> "{" \o jsonMembers(v.props, TRUE) \o "}"

----------------------------------------------------------------------------
(* configure_client.ts: the helpers of the response listener *)

convertQueryString(qs) ==
  IF qs.kind = "undefined" \/ qs.kind = "string"
    THEN Coalesce(qs, Str("")).str
    ELSE stringify(qs)

\* Variant of ensureString that takes any object with a 'readable' property and
\* a _read method for a stream, without testing body.readable.
ensureStringAnyReadable(body) ==
  IF body.kind = "string" THEN body.str
  ELSE IF body.kind = "buffer" THEN "[buffer]"
  ELSE IF In("readable", body) /\ Get(body, "_read").kind = "function" THEN "[stream]"
  ELSE JSONstringify(body)

ensureString(body) ==
  IF body.kind = "string" THEN body.str
  ELSE IF body.kind = "buffer" THEN "[buffer]"
  ELSE IF In("readable", body) /\ Truthy(Get(body, "readable"))
          /\ Get(body, "_read").kind = "function" THEN "[stream]"
  ELSE JSONstringify(body)

\* event.body?.error?.<field>
bodyErrorField(event, field) ==
  IF Nullish(event.body) THEN Undefined
  ELSE IF Nullish(event.body.error) THEN Undefined
  ELSE event.body.error[field]

\* The template literal of line 61.
errorMessage(error, event) ==
  "[" \o Coalesce(bodyErrorField(event, "type"), Str(error.name)).str \o "]: "
      \o Coalesce(bodyErrorField(event, "reason"), Str(error.message)).str

\* Variant of requestUrl that writes the '?' whatever the query.
requestUrlAlwaysMark(params) ==
  params.path \o "?" \o convertQueryString(params.querystring)

\* Lines 69-70.
requestUrl(params) ==
  LET querystring == convertQueryString(params.querystring)
  IN params.path \o (IF querystring # "" THEN "?" \o querystring ELSE "")

\* Variant of requestBody that tests params.body !== undefined.
requestBodyWhenDefined(params) ==
  IF ~Nullish(params.body) THEN "\n" \o ensureString(params.body) ELSE ""

\* Line 71.
requestBody(params) ==
  IF Truthy(params.body) THEN "\n" \o ensureString(params.body) ELSE ""

\* The template literal of line 72.
queryMessage(event) ==
  LET params == event.meta.request.params
  IN ToString(event.statusCode) \o "\n" \o params.method \o " "
       \o requestUrl(params) \o requestBody(params)

\* logger.error(errorMessage): one argument, no meta.
errorCall(error, event) ==
  [level |-> "error", message |-> errorMessage(error, event), meta |-> Undefined]

\* logger.debug(message, { tags: ['query'] })
debugCall(event) ==
  [level |-> "debug", message |-> queryMessage(event),
   meta |-> [kind |-> "object", tags |-> <<"query">>]]

\* Whether line 61 raises: event.body dereferences event itself, with no ?.
\* guard, so an absent event is a TypeError before logger.error is reached.
errorBranchThrows(error, event) == Truthy(error) /\ Nullish(event)

\* Variant of the listener with the query branch as the else of the error
\* branch.
responseListenerElseIf(logQueries, error, event) ==
  IF errorBranchThrows(error, event)
    THEN [threw |-> TRUE, calls |-> <<>>]
    ELSE [threw |-> FALSE,
          calls |-> IF Truthy(error) THEN <<errorCall(error, event)>>
                    ELSE IF Truthy(event) /\ logQueries
                      THEN <<debugCall(event)>> ELSE <<>>]

\* Variant of the listener that does not test logQueries.
responseListenerAlwaysQuery(logQueries, error, event) ==
  IF errorBranchThrows(error, event)
    THEN [threw |-> TRUE, calls |-> <<>>]
    ELSE [threw |-> FALSE,
          calls |-> (IF Truthy(error) THEN <<errorCall(error, event)>> ELSE <<>>)
                    \o (IF Truthy(event) THEN <<debugCall(event)>> ELSE <<>>)]

\* Variant of the listener with the two branches in the other order.
responseListenerQueryFirst(logQueries, error, event) ==
  IF errorBranchThrows(error, event)
    THEN [threw |-> TRUE, calls |-> <<>>]
    ELSE [threw |-> FALSE,
          calls |-> (IF Truthy(event) /\ logQueries
                       THEN <<debugCall(event)>> ELSE <<>>)
                    \o (IF Truthy(error) THEN <<errorCall(error, event)>> ELSE <<>>)]

\* The listener of lines 57-76, for the logQueries its closure captured:
\* whether it threw and the logger calls it made, in order.
responseListener(logQueries, error, event) ==
  IF errorBranchThrows(error, event)
    THEN [threw |-> TRUE, calls |-> <<>>]
    ELSE [threw |-> FALSE,
          calls |-> (IF Truthy(error) THEN <<errorCall(error, event)>> ELSE <<>>)
                    \o (IF Truthy(event) /\ logQueries
                          THEN <<debugCall(event)>> ELSE <<>>)]

\* client.emit('response', error, event): the listeners run in registration
\* order; the first one that throws ends the dispatch.
RECURSIVE emitFrom(_, _, _, _)
emitFrom(listeners, i, error, event) ==
  IF i > Len(listeners) THEN [threw |-> FALSE, calls |-> <<>>]
  ELSE LET r == responseListener(listeners[i].logQueries, error, event)
       IN IF r.threw THEN r
          ELSE LET rest == emitFrom(listeners, i + 1, error, event)
               IN [threw |-> rest.threw, calls |-> r.calls \o rest.calls]

emit(c, error, event) == emitFrom(c.listeners, 1, error, event)

----------------------------------------------------------------------------
(* configure_client.ts: configureClient and addLogging *)

\* parseClientOptions(config, scoped) of ./client_config: the options derived
\* from the configuration and the scoped flag; the long-numeral flag is not
\* among what it sets.
parseClientOptions(config, scoped) ==
  [derivedFrom |-> [hosts |-> config.hosts, scoped |-> scoped],
   enableLongNumeralSupport |-> Undefined]

\* new Client(clientOptions): no 'response' listener yet.
NewClient(clientOptions) ==
  [kind |-> "client", options |-> clientOptions, listeners |-> <<>>]

\* Variant of addLogging that registers the listener twice.
addLoggingTwice(c, logQueries) ==
  [c EXCEPT !.listeners = @ \o <<[logQueries |-> logQueries], [logQueries |-> logQueries]>>]

\* client.on('response', listener), the closure holding logQueries.
addLogging(c, logQueries) ==
  [c EXCEPT !.listeners = Append(@, [logQueries |-> logQueries])]

\* Variant of configureClient that sets the flag without testing
\* withLongNumeralsSupport.
configureClientAlwaysLong(config, scoped, withLongNumeralsSupport) ==
  LET parsed == parseClientOptions(config, scoped)
      clientOptions == [parsed EXCEPT !.enableLongNumeralSupport = Bool(TRUE)]
  IN [kind |-> "client", options |-> clientOptions,
      listeners |-> <<[logQueries |-> config.logQueries]>>]

configureClient(config, scoped, withLongNumeralsSupport) ==
  LET parsed == parseClientOptions(config, scoped)
      clientOptions ==
        IF withLongNumeralsSupport
          THEN [parsed EXCEPT !.enableLongNumeralSupport = Bool(TRUE)]
          ELSE parsed
  IN addLogging(NewClient(clientOptions), config.logQueries)

----------------------------------------------------------------------------
(* The inputs: what a caller passes to configureClient and what the client
   hands to the listener of a 'response' event *)

Configs == {[hosts |-> "http://localhost:9200", logQueries |-> b] : b \in BOOLEAN}

\* The error argument: absent, or an error object with a name and a message.
Errors ==
  {Undefined,
   [kind |-> "error", name |-> "ResponseError", message |-> "Response Error"]}

\* event.body: absent, without an error field, or with the engine's error, the
\* type and the reason each reported or not.
ErrorFields(f) == {Undefined, Str(f)}

EventBodies ==
  {Undefined, [kind |-> "object", error |-> Undefined]}
  \cup {[kind |-> "object",
         error |-> [kind |-> "object", type |-> t, reason |-> r]] :
          t \in ErrorFields("index_not_found_exception"),
          r \in ErrorFields("no such index")}

\* The key/value pairs a querystring mapping is built from, in insertion order.
QsPairList ==
  <<P(<<"q">>, <<"a">>), P(<<"a">>, <<"1">>), P(<<"b">>, <<"2">>),
    P(<<"s", "=">>, <<"x", " ", "&", "y">>)>>

\* The subsequences of list with at most n elements.
RECURSIVE SubSeqs(_, _)
SubSeqs(list, n) ==
  IF list = <<>> \/ n = 0 THEN {<<>>}
  ELSE SubSeqs(Tail(list), n)
       \cup {<<Head(list)>> \o t : t \in SubSeqs(Tail(list), n - 1)}

\* params.querystring: undefined, a string, or a mapping.
QueryStrings ==
  {Undefined, Str(""), Str("a=1&b=2")}
  \cup {Obj(ps) : ps \in SubSeqs(QsPairList, MaxPairs)}

\* params.body: absent, a string, a Buffer, a readable stream, a stream that
\* is no longer readable, or a plain structured value.
Stream == Obj(<<P("readable", Bool(TRUE)), P("_read", Fn)>>)
EndedStream == Obj(<<P("readable", Bool(FALSE)), P("_read", Fn)>>)
Structured == Obj(<<P("query", Obj(<<P("match", Str("x"))>>)), P("explain", Bool(TRUE))>>)

RequestBodies ==
  {Undefined, Str(""), Str("{\"query\":{}}"), Buf, Stream, EndedStream, Structured}

\* meta.request.params of the requests delivered: searches over every shape
\* of the querystring, and writes over every present body.
SearchRequests ==
  {[method |-> "GET", path |-> "/_search", querystring |-> q, body |-> Undefined] :
     q \in QueryStrings}

BulkRequests ==
  {[method |-> "POST", path |-> "/_bulk", querystring |-> Str("a=1&b=2"), body |-> b] :
     b \in RequestBodies \ {Undefined}}

Requests == SearchRequests \cup BulkRequests

\* The engine answers 404 with its error report and 200 otherwise.
StatusCodeOf(body) ==
  IF Nullish(body) THEN 200 ELSE IF Nullish(body.error) THEN 200 ELSE 404

\* The event argument: absent, or the response with its request's params.
Events ==
  {Undefined}
  \cup {[kind |-> "object", body |-> b, statusCode |-> StatusCodeOf(b),
         meta |-> [request |-> [params |-> rq]]] :
          b \in EventBodies, rq \in Requests}

----------------------------------------------------------------------------
(* The state machine *)

NoClient == [kind |-> "none"]
NoCall == [kind |-> "none"]

Count(calls, level) == Cardinality({i \in 1..Len(calls) : calls[i].level = level})

Init ==
  /\ call = NoCall
  /\ client = NoClient
  /\ logger = [error |-> 0, debug |-> 0]
  /\ delivered = 0
  /\ lastError = Undefined
  /\ lastEvent = Undefined
  /\ emitted = <<>>
  /\ threw = FALSE

\* A caller runs configureClient(config, { logger, scoped,
\* withLongNumeralsSupport }) with a fresh logger and keeps the client returned.
Configure ==
  \E config \in Configs, scoped \in BOOLEAN, withLongNumeralsSupport \in BOOLEAN :
    /\ call' = [kind |-> "call", config |-> config, scoped |-> scoped,
                withLongNumeralsSupport |-> withLongNumeralsSupport]
    /\ client' = configureClient(config, scoped, withLongNumeralsSupport)
    /\ logger' = [error |-> 0, debug |-> 0]
    /\ delivered' = 0
    /\ lastError' = Undefined
    /\ lastEvent' = Undefined
    /\ emitted' = <<>>
    /\ threw' = FALSE

\* The client emits 'response' with (error, event): its listeners run and
\* their calls reach the logger.
Response ==
  \E error \in Errors, event \in Events :
    /\ client.kind = "client"
    /\ delivered < MaxEvents
    /\ LET r == emit(client, error, event)
       IN /\ emitted' = r.calls
          /\ threw' = r.threw
          /\ logger' = [error |-> logger.error + Count(r.calls, "error"),
                        debug |-> logger.debug + Count(r.calls, "debug")]
    /\ delivered' = delivered + 1
    /\ lastError' = error
    /\ lastEvent' = event
    /\ UNCHANGED <<call, client>>

Next == Configure \/ Response

Spec == Init /\ [][Next]_vars

----------------------------------------------------------------------------
(* What the properties speak of *)

\* An event has been delivered to the listener of the client in hand.
Delivered == client.kind = "client" /\ delivered > 0

LogQueriesEnabled == call.kind = "call" /\ call.config.logQueries
LogQueriesDisabled == call.kind = "call" /\ ~call.config.logQueries

ErrorPresent == lastError.kind = "error"
EventPresent == lastEvent.kind = "object"

ErrorLines == SelectSeq(emitted, LAMBDA c : c.level = "error")
DebugLines == SelectSeq(emitted, LAMBDA c : c.level = "debug")

LastParams == lastEvent.meta.request.params

QueryTags == [kind |-> "object", tags |-> <<"query">>]

\* The engine's error report of the last event, if it carries one.
EngineError ==
  IF EventPresent /\ lastEvent.body.kind = "object"
     /\ lastEvent.body.error.kind = "object"
    THEN lastEvent.body.error
    ELSE [kind |-> "object", type |-> Undefined, reason |-> Undefined]

ReportedType ==
  IF EngineError.type.kind = "string" THEN EngineError.type.str ELSE lastError.name

ReportedReason ==
  IF EngineError.reason.kind = "string" THEN EngineError.reason.str
  ELSE lastError.message

\* <statusCode>\n<method> <url>, the head of the debug line.
LineHead(url) ==
  ToString(lastEvent.statusCode) \o "\n" \o LastParams.method \o " " \o url

----------------------------------------------------------------------------
(* C1 *)

\* C1: every response delivered with an error present emits exactly one
\* error-severity line, `[<type>]: <reason>`, the type and the reason each the
\* engine's if reported and else the error's name / message; without an error
\* no error-severity line is emitted.
C1_ErrorLine ==
  Delivered =>
    IF ErrorPresent
      THEN /\ Len(ErrorLines) = 1
           /\ ErrorLines[1].message = "[" \o ReportedType \o "]: " \o ReportedReason
      ELSE ErrorLines = <<>>

----------------------------------------------------------------------------
(* C2 *)

\* C2 as stated: with query logging enabled, every response delivered, with
\* or without an error, emits exactly one debug line, tagged ["query"].
C2_Original ==
  Delivered /\ LogQueriesEnabled =>
    /\ Len(DebugLines) = 1
    /\ DebugLines[1].meta = QueryTags

\* C2: with query logging enabled, every response delivered with its event
\* object present, with or without an error, emits exactly one debug line,
\* tagged ["query"].
C2_DebugLine ==
  Delivered /\ LogQueriesEnabled /\ EventPresent =>
    /\ Len(DebugLines) = 1
    /\ DebugLines[1].meta = QueryTags

C2_Witness ==
  /\ Delivered /\ LogQueriesEnabled /\ EventPresent /\ ErrorPresent
  /\ Len(DebugLines) = 1
  /\ logger.debug = 2

----------------------------------------------------------------------------
(* C3 *)

\* C3: with query logging disabled, logger.debug is never called, whatever
\* the sequence of responses and whether or not they carry an error.
C3_NoDebug ==
  LogQueriesDisabled => logger.debug = 0 /\ DebugLines = <<>>

C3_Witness ==
  /\ LogQueriesDisabled /\ delivered = 2
  /\ ErrorPresent /\ EventPresent
  /\ logger.error = 2 /\ logger.debug = 0

----------------------------------------------------------------------------
(* C4 *)

----------------------------------------------------------------------------
(* C5 *)

\* key=value pairs, URL-escaped, joined by '&'.
RECURSIVE EncodedPairs(_)
EncodedPairs(props) ==
  IF props = <<>> THEN ""
  ELSE LET n == Len(props)
           kv == qsEscape(props[n].key) \o "=" \o qsEscape(props[n].val)
       IN IF n = 1 THEN kv ELSE EncodedPairs(SubSeq(props, 1, n - 1)) \o "&" \o kv

\* The URL as C5 states it: a '?' whenever the querystring is a mapping or a
\* string.
C5_StatedUrl(params) ==
  CASE params.querystring.kind = "object" ->
         params.path \o "?" \o EncodedPairs(params.querystring.props)
    [] params.querystring.kind = "string" ->
         params.path \o "?" \o params.querystring.str
    [] OTHER -> params.path

\* C5 as stated: the URL of the debug line is the path, '?' and the encoded
\* pairs for a mapping, the path, '?' and the string for a string, and the
\* path alone for an absent querystring.
C5_Original ==
  Delivered /\ DebugLines # <<>> =>
    DebugLines[1].message = LineHead(C5_StatedUrl(LastParams)) \o requestBody(LastParams)

\* The URL with the '?' only before a non-empty query.
C5_Url(params) ==
  CASE params.querystring.kind = "object" /\ params.querystring.props # <<>> ->
         params.path \o "?" \o EncodedPairs(params.querystring.props)
    [] params.querystring.kind = "string" /\ params.querystring.str # "" ->
         params.path \o "?" \o params.querystring.str
    [] OTHER -> params.path

\* C5: the URL of the debug line is the path, '?' and the encoded pairs for a
\* mapping with at least one pair, the path, '?' and the string for a
\* non-empty string, and the path alone, with no '?', for an absent
\* querystring, an empty string or a mapping with no pair.
C5_QueryString ==
  /\ Delivered /\ DebugLines # <<>> =>
       DebugLines[1].message = LineHead(C5_Url(LastParams)) \o requestBody(LastParams)
  /\ Delivered /\ DebugLines # <<>> /\ LastParams.body = Undefined =>
       /\ LastParams.querystring = Obj(<<P(<<"a">>, <<"1">>), P(<<"b">>, <<"2">>)>>)
            => DebugLines[1].message = LineHead("/_search?a=1&b=2")
       /\ LastParams.querystring = Str("a=1&b=2")
            => DebugLines[1].message = LineHead("/_search?a=1&b=2")
       /\ LastParams.querystring = Obj(<<P(<<"s", "=">>, <<"x", " ", "&", "y">>)>>)
            => DebugLines[1].message = LineHead("/_search?s%3D=x%20%26y")
       /\ LastParams.querystring \in {Undefined, Str(""), Obj(<<>>)}
            => DebugLines[1].message = LineHead("/_search")

C5_Witness ==
  /\ Delivered /\ DebugLines # <<>>
  /\ LastParams.querystring = Obj(<<P(<<"a">>, <<"1">>), P(<<"s", "=">>, <<"x", " ", "&", "y">>)>>)
  /\ DebugLines[1].message = "200\nGET /_search?a=1&s%3D=x%20%26y"

----------------------------------------------------------------------------
(* C6 *)

\* A readable-stream shape: a 'readable' property that is set, and a _read
\* method.
StreamShaped(body) ==
  /\ body.kind = "object"
  /\ \E i \in 1..Len(body.props) :
       body.props[i].key = "readable" /\ body.props[i].val = Bool(TRUE)
  /\ \E i \in 1..Len(body.props) :
       body.props[i].key = "_read" /\ body.props[i].val = Fn

\* The JSON text of the structured bodies.
JsonText(body) ==
  CASE body = Structured -> "{\"query\":{\"match\":\"x\"},\"explain\":true}"
    [] body = EndedStream -> "{\"readable\":false}"

\* The rendering C6 states for each variant of a present body.
C6_Rendered(body) ==
  CASE body.kind = "string" -> body.str
    [] body.kind = "buffer" -> "[buffer]"
    [] StreamShaped(body) -> "[stream]"
    [] OTHER -> JsonText(body)

\* C6: the body of the debug line is rendered by variant: a string unchanged,
\* a Buffer as [buffer], a readable-stream shape as [stream], every other
\* structured value as its JSON text; ensureString chooses exactly one of
\* the four for every present body.
C6_BodyRendering ==
  /\ \A body \in RequestBodies \ {Undefined} : ensureString(body) = C6_Rendered(body)
  /\ Delivered /\ DebugLines # <<>> /\ Truthy(LastParams.body) =>
       DebugLines[1].message =
         LineHead(requestUrl(LastParams)) \o "\n" \o C6_Rendered(LastParams.body)

C6_Witness ==
  /\ Delivered /\ DebugLines # <<>>
  /\ LastParams.body = EndedStream
  /\ DebugLines[1].message = "200\nPOST /_bulk?a=1&b=2\n{\"readable\":false}"

----------------------------------------------------------------------------
(* C7 *)

\* The response of the end-to-end scenario: 200, GET /_search, { q: 'a' },
\* no body.
ScenarioEvent ==
  [kind |-> "object", body |-> Undefined, statusCode |-> 200,
   meta |-> [request |-> [params |->
     [method |-> "GET", path |-> "/_search",
      querystring |-> Obj(<<P(<<"q">>, <<"a">>)>>), body |-> Undefined]]]]

ScenarioLine ==
  Delivered /\ LogQueriesEnabled /\ ~ErrorPresent /\ lastEvent = ScenarioEvent =>
    emitted = <<[level |-> "debug", message |-> "200\nGET /_search?q=a",
                 meta |-> QueryTags]>>

\* C7 as stated: the debug line is <statusCode>\n<method> <url>, followed by
\* \n<rendered body> if and only if the request body is present; the
\* scenario yields `200\nGET /_search?q=a` and no error line.
C7_Original ==
  /\ Delivered /\ DebugLines # <<>> =>
       DebugLines[1].message =
         LineHead(requestUrl(LastParams))
           \o (IF LastParams.body # Undefined
                 THEN "\n" \o ensureString(LastParams.body) ELSE "")
  /\ ScenarioLine

\* C7: the debug line is <statusCode>\n<method> <url>, followed by
\* \n<rendered body> if and only if the request body is present and is not
\* the empty string; the scenario yields `200\nGET /_search?q=a` and no error
\* line.
C7_QueryLine ==
  /\ Delivered /\ DebugLines # <<>> =>
       DebugLines[1].message =
         LineHead(requestUrl(LastParams))
           \o (IF LastParams.body \notin {Undefined, Str("")}
                 THEN "\n" \o ensureString(LastParams.body) ELSE "")
  /\ ScenarioLine

C7_Witness ==
  /\ Delivered /\ LogQueriesEnabled /\ ~ErrorPresent /\ lastEvent = ScenarioEvent
  /\ Len(emitted) = 1
  /\ emitted[1].message = "200\nGET /_search?q=a"

----------------------------------------------------------------------------
(* C8 *)

DerivedOptions == parseClientOptions(call.config, call.scoped)

\* C8: with withLongNumeralsSupport the options handed to the constructor
\* carry enableLongNumeralSupport = true; without it the flag is as
\* parseClientOptions(config, scoped) derived it, unset; nothing else of the
\* derived options is changed in either case.
C8_LongNumerals ==
  call.kind = "call" =>
    /\ client.kind = "client"
    /\ DOMAIN client.options = DOMAIN DerivedOptions
    /\ \A f \in DOMAIN DerivedOptions \ {"enableLongNumeralSupport"} :
         client.options[f] = DerivedOptions[f]
    /\ client.options.enableLongNumeralSupport =
         IF call.withLongNumeralsSupport
           THEN Bool(TRUE) ELSE DerivedOptions.enableLongNumeralSupport
    /\ ~call.withLongNumeralsSupport =>
         client.options.enableLongNumeralSupport = Undefined

C8_Witness ==
  /\ call.kind = "call" /\ call.withLongNumeralsSupport /\ call.scoped
  /\ client.options.enableLongNumeralSupport = Bool(TRUE)
  /\ client.options.derivedFrom.scoped

----------------------------------------------------------------------------
(* C9 *)

\* C9: every client configureClient has returned holds exactly one
\* 'response' listener, when it is returned and after any response event.
C9_OneListener ==
  client.kind = "client" =>
    /\ Len(client.listeners) = 1
    /\ client.listeners[1].logQueries = call.config.logQueries

C9_Witness ==
  /\ client.kind = "client" /\ delivered = 2 /\ ~threw
  /\ Len(emitted) = 2
  /\ Len(client.listeners) = 1

----------------------------------------------------------------------------
(* C10 *)

\* C10: the listener never raises: for every response event, the event
\* object present or absent, it only calls the logger and returns normally.
C10_NeverRaises == ~threw

====
